---- MODULE Spec2Model ----
(***************************************************************************)
(* Model of the SDK sniffer toggle of config/plugins/mlnx.py:              *)
(* sdk_sniffer_enable / sdk_sniffer_disable, sniffer_env_variable_set and  *)
(* the helpers they call, acting on the supervisor configuration file of   *)
(* the syncd container (the remote fragment) through the local staging     *)
(* file /tmp/tmp.conf.                                                     *)
(*                                                                         *)
(* Text is a sequence of tokens (a token stands for a run of characters,   *)
(* "\n" is a token of its own); a file is its content, one text, plus      *)
(* whether it exists.  Lines are obtained from a content the way Python    *)
(* iterates a text file: each line runs up to and including its "\n", the  *)
(* last one may lack it.                                                   *)
(***************************************************************************)
EXTENDS Integers, Sequences, FiniteSets, TLC

\* ----------------------------------------------------------------- bounds
\* Longest body (lines after the optional section header) of an initial
\* remote fragment, the fragments of OrderFragments apart.
MaxBody == 2
\* Invocations of the command line tool in one behaviour.
MaxCalls == 2
\* Failures (of an external command or of local file I/O) in one behaviour.
MaxFaults == 1
\* Longest body of an initial remote fragment of the concurrent runs.
MaxBodyConc == 2
\* Most tokens that a copy back had written when it failed while it wrote: with
\* four, the section header and a directive line cut after its name are written.
MaxWritten == 4

\* ------------------------------------------------------- program constants
NL == "\n"
ENV_VARIABLE_SX_SNIFFER == <<"SX_SNIFFER_ENABLE">>
ENV_VARIABLE_SX_SNIFFER_TARGET == <<"SX_SNIFFER_TARGET">>
SDK_SNIFFER_TARGET_PATH == <<"/var/log/sdk_dbg/">>
SDK_SNIFFER_FILENAME_PREFIX == <<"sx_sdk_sniffer_">>
SDK_SNIFFER_FILENAME_EXT == <<".pcap">>
\* The line env_variable_write puts first into an empty file.
SECTION_HEADER == <<"[program:syncd]", NL>>

\* Values of time.strftime("%Y%m%d%H%M%S") at the moments the tool is run.
TimeStamps == {<<"20240101000000">>, <<"20240101000001">>}

\* ------------------------------------------------------------ text helpers
\* src.find(sub) >= 0
Contains(text, sub) ==
    \E i \in 1..(Len(text) - Len(sub) + 1) : \A k \in DOMAIN sub : text[i + k - 1] = sub[k]

\* Index of the first "\n" of a non-empty text, or its length when it has none.
RECURSIVE LineEnd(_, _)
LineEnd(text, i) ==
    IF i >= Len(text) \/ text[i] = NL THEN i ELSE LineEnd(text, i + 1)

\* The lines of a content, as file iteration and readlines() give them.
RECURSIVE Lines(_)
Lines(text) ==
    IF text = <<>> THEN <<>>
    ELSE LET e == LineEnd(text, 1)
         IN  <<SubSeq(text, 1, e)>> \o Lines(SubSeq(text, e + 1, Len(text)))

\* Concatenation of a sequence of texts (successive write() calls).
RECURSIVE Join(_)
Join(texts) ==
    IF texts = <<>> THEN <<>> ELSE Head(texts) \o Join(Tail(texts))

Range(s) == {s[i] : i \in DOMAIN s}

\* --------------------------------------------------- sdk_sniffer_enable, pure part
\* sniffer_filename_generate: path + prefix + time stamp + extension.
sniffer_filename_generate(path, filename_prefix, filename_ext, time_stamp) ==
    path \o filename_prefix \o time_stamp \o filename_ext

\* The dict of sdk_sniffer_enable, in insertion order.
sdk_sniffer_env_variable_dict(filename) ==
    << <<ENV_VARIABLE_SX_SNIFFER, <<"1">> \o <<",">> >>,
       <<ENV_VARIABLE_SX_SNIFFER_TARGET, filename>> >>

\* The loop of sdk_sniffer_enable over dict.items().
RECURSIVE EnvPairs(_)
EnvPairs(items) ==
    IF items = <<>> THEN <<>>
    ELSE (Head(items)[1] \o <<"=">> \o Head(items)[2]) \o EnvPairs(Tail(items))

sdk_sniffer_env_variable_string(time_stamp) ==
    <<"environment=">>
    \o EnvPairs(sdk_sniffer_env_variable_dict(
           sniffer_filename_generate(SDK_SNIFFER_TARGET_PATH,
                                     SDK_SNIFFER_FILENAME_PREFIX,
                                     SDK_SNIFFER_FILENAME_EXT, time_stamp)))
    \o <<NL>>

\* ------------------------------------------------------------ bytes of a text
\* The characters of a token; a token not listed is one character.
Chars(token) ==
    CASE token = "[program:syncd]" ->
             <<"[", "p", "r", "o", "g", "r", "a", "m", ":", "s", "y", "n", "c", "d", "]">>
      [] token = "environment=" ->
             <<"e", "n", "v", "i", "r", "o", "n", "m", "e", "n", "t", "=">>
      [] token = "SX_SNIFFER_ENABLE" ->
             <<"S", "X", "_", "S", "N", "I", "F", "F", "E", "R", "_", "E", "N", "A", "B", "L", "E">>
      [] token = "SX_SNIFFER_TARGET" ->
             <<"S", "X", "_", "S", "N", "I", "F", "F", "E", "R", "_", "T", "A", "R", "G", "E", "T">>
      [] token = "/var/log/sdk_dbg/" ->
             <<"/", "v", "a", "r", "/", "l", "o", "g", "/", "s", "d", "k", "_", "d", "b", "g", "/">>
      [] token = "sx_sdk_sniffer_" ->
             <<"s", "x", "_", "s", "d", "k", "_", "s", "n", "i", "f", "f", "e", "r", "_">>
      [] token = "20240101000000" ->
             <<"2", "0", "2", "4", "0", "1", "0", "1", "0", "0", "0", "0", "0", "0">>
      [] token = "20240101000001" ->
             <<"2", "0", "2", "4", "0", "1", "0", "1", "0", "0", "0", "0", "0", "1">>
      [] token = "20231231235959" ->
             <<"2", "0", "2", "3", "1", "2", "3", "1", "2", "3", "5", "9", "5", "9">>
      [] token = ".pcap" ->
             <<".", "p", "c", "a", "p">>
      [] token = "autostart" ->
             <<"a", "u", "t", "o", "s", "t", "a", "r", "t">>
      [] token = "true" ->
             <<"t", "r", "u", "e">>
      [] token = "priority" ->
             <<"p", "r", "i", "o", "r", "i", "t", "y">>
      [] token = "_PRM" ->
             <<"_", "P", "R", "M">>
      [] OTHER -> <<token>>

\* The byte a file holds where it was extended without being written.
NUL == "NUL"

\* len(token) and the size of a text in bytes.
ByteLen(token) == Len(Chars(token))

RECURSIVE Bytes(_)
Bytes(text) == IF text = <<>> THEN 0 ELSE ByteLen(Head(text)) + Bytes(Tail(text))

\* The text from byte n on: a token cut by the boundary is left as characters.
RECURSIVE DropBytes(_, _)
DropBytes(text, n) ==
    IF n = 0 \/ text = <<>> THEN text
    ELSE IF ByteLen(Head(text)) <= n THEN DropBytes(Tail(text), n - ByteLen(Head(text)))
    ELSE SubSeq(Chars(Head(text)), n + 1, ByteLen(Head(text))) \o Tail(text)

\* ftruncate(n): the first n bytes of the text, NUL bytes added when it is shorter.
RECURSIVE TakeBytes(_, _)
TakeBytes(text, n) ==
    IF n = 0 THEN <<>>
    ELSE IF text = <<>> THEN <<NUL>> \o TakeBytes(text, n - 1)
    ELSE IF ByteLen(Head(text)) <= n
    THEN <<Head(text)>> \o TakeBytes(Tail(text), n - ByteLen(Head(text)))
    ELSE SubSeq(Chars(Head(text)), 1, n)

\* The tokens of more than one character.
KnownTokens ==
    {"[program:syncd]", "environment=", "SX_SNIFFER_ENABLE", "SX_SNIFFER_TARGET",
     "/var/log/sdk_dbg/", "sx_sdk_sniffer_", "20240101000000", "20240101000001",
     "20231231235959", ".pcap", "autostart", "true", "priority", "_PRM"}

\* The characters that a text holds on their own only where a token was cut.
Letters == UNION {Range(Chars(token)) : token \in KnownTokens} \ {"=", "1", ","}

\* The characters of a text.
RECURSIVE Flat(_)
Flat(text) == IF text = <<>> THEN <<>> ELSE Chars(Head(text)) \o Flat(Tail(text))

\* The text of a sequence of characters: the same string is the same text.
RECURSIVE Tokens(_)
Tokens(chars) ==
    IF chars = <<>> THEN <<>>
    ELSE LET starts == {token \in KnownTokens :
                          /\ ByteLen(token) <= Len(chars)
                          /\ SubSeq(chars, 1, ByteLen(token)) = Chars(token)}
         IN  IF starts = {} THEN <<Head(chars)>> \o Tokens(Tail(chars))
             ELSE LET token == CHOOSE t \in starts :
                                  \A u \in starts : ByteLen(u) <= ByteLen(t)
                  IN  <<token>> \o Tokens(SubSeq(chars, ByteLen(token) + 1, Len(chars)))

\* A text put together from pieces, as the string it is.
Pack(text) ==
    IF \E i \in DOMAIN text : text[i] \in Letters THEN Tokens(Flat(text)) ELSE text

\* write(data) at offset 0 of a file that holds the text.
WriteAtStart(text, data) == Pack(data \o DropBytes(text, Bytes(data)))

\* One read system call at offset pos of a file that holds the text: the bytes
\* from there to the end of the file, none when the file ends before.
RawRead(text, pos) == DropBytes(text, pos)

\* Index of the last "\n" of a text, 0 when it has none.
LastNewline(text) ==
    LET at == {i \in DOMAIN text : text[i] = NL}
    IN  IF at = {} THEN 0 ELSE CHOOSE i \in at : \A j \in at : j <= i

\* What a file object gives its reader, line by line, of the text it has buffered
\* before it must read the file again: the lines that are ended when the last
\* read gave data; all the text, as one line, when the last read gave none.
Available(text, data) ==
    IF data = <<>> THEN text ELSE SubSeq(text, 1, LastNewline(text))

\* What stays buffered: the beginning of a line that has not ended yet.
Buffered(text, data) ==
    IF data = <<>> THEN <<>> ELSE SubSeq(text, LastNewline(text) + 1, Len(text))

\* ------------------------------------------------------- file operations, pure part
\* env_variable_read: the first line that contains the name, else ''.  The
\* content is what the loop is given between two reads of the file.
RECURSIVE FirstMatch(_, _)
FirstMatch(lines, name) ==
    IF lines = <<>> THEN <<>>
    ELSE IF Contains(Head(lines), name) THEN Head(lines)
    ELSE FirstMatch(Tail(lines), name)

\* env_variable_read with the for loop's else clause run after the loop in every
\* case: the line found is overwritten by ''.
env_variable_read_always_empty(content, env_variable_name) ==
    IF FirstMatch(Lines(content), env_variable_name) = <<>> THEN <<>> ELSE <<>>

\* env_variable_read that matches the name as a key: the name followed by "=".
env_variable_read_exact_key(content, env_variable_name) ==
    FirstMatch(Lines(content), env_variable_name \o <<"=">>)

env_variable_read(content, env_variable_name) ==
    FirstMatch(Lines(content), env_variable_name)

\* env_variable_delete: every line that differs from delete_line, written back.
RECURSIVE KeepOthers(_, _)
KeepOthers(lines, delete_line) ==
    IF lines = <<>> THEN <<>>
    ELSE (IF Head(lines) # delete_line THEN <<Head(lines)>> ELSE <<>>)
         \o KeepOthers(Tail(lines), delete_line)

\* env_variable_delete that drops the first line equal to delete_line only.
RECURSIVE DropFirst(_, _)
DropFirst(lines, delete_line) ==
    IF lines = <<>> THEN <<>>
    ELSE IF Head(lines) = delete_line THEN Tail(lines)
    ELSE <<Head(lines)>> \o DropFirst(Tail(lines), delete_line)

env_variable_delete_first_only(all_lines, delete_line) ==
    Join(DropFirst(all_lines, delete_line))

\* env_variable_delete that drops every line containing the directive name.
RECURSIVE KeepUnrelated(_)
KeepUnrelated(lines) ==
    IF lines = <<>> THEN <<>>
    ELSE (IF Contains(Head(lines), ENV_VARIABLE_SX_SNIFFER) THEN <<>> ELSE <<Head(lines)>>)
         \o KeepUnrelated(Tail(lines))

env_variable_delete_by_name(all_lines, delete_line) ==
    IF delete_line = <<>> THEN Join(all_lines) ELSE Join(KeepUnrelated(all_lines))

\* env_variable_delete with its test inverted: the lines equal to delete_line are
\* the ones written back.
RECURSIVE KeepEqual(_, _)
KeepEqual(lines, delete_line) ==
    IF lines = <<>> THEN <<>>
    ELSE (IF Head(lines) = delete_line THEN <<Head(lines)>> ELSE <<>>)
         \o KeepEqual(Tail(lines), delete_line)

env_variable_delete_inverted(all_lines, delete_line) ==
    Join(KeepEqual(all_lines, delete_line))

\* env_variable_delete: what it writes back of the lines readlines() gave.
env_variable_delete(all_lines, delete_line) ==
    Join(KeepOthers(all_lines, delete_line))

\* env_variable_write with its size test inverted: the section header goes into
\* a file that is not empty.
env_variable_write_inverted(size, env_variable_string) ==
    (IF size # 0 THEN SECTION_HEADER ELSE <<>>) \o env_variable_string

\* env_variable_write without its size test: the section header goes in each time.
env_variable_write_header_always(size, env_variable_string) ==
    SECTION_HEADER \o env_variable_string

\* env_variable_write: what it writes to the file opened for appending, size being
\* what os.path.getsize gave: the section header first when the file is empty.
env_variable_write(size, env_variable_string) ==
    (IF size = 0 THEN SECTION_HEADER ELSE <<>>) \o env_variable_string

\* ------------------------------------------------------------------ state
VARIABLES
    remote,         \* content of syncd:/etc/supervisor/conf.d/mlnx_sniffer.conf
    remoteExists,   \* whether that file exists
    staging,        \* content of /tmp/tmp.conf
    stagingExists,  \* whether /tmp/tmp.conf exists
    targetDir,      \* whether /var/log/sdk_dbg/ exists
    proc,           \* per process running the tool: its position and locals
    calls,          \* the invocations that ended last: the one before the
                    \* invocation now running or just ended, then that one
    started,        \* invocations begun so far
    faults,         \* failures so far
    db,             \* the configuration database: its FEATURE table, the order
                    \* of that table's keys, and its SYSLOG_CONFIG_FEATURE table
    service_name,   \* the argument of show syslog rate-limit-container
    output          \* what that command gave: rows printed, or an error raised

\* The state of show syslog rate-limit-container.
showVars == <<db, service_name, output>>

vars ==
    <<remote, remoteExists, staging, stagingExists, targetDir, proc, calls, started, faults,
      db, service_name, output>>

\* Processes that may run the tool.
Procs == {1, 2}

Ended == {"idle", "done", "aborted"}

\* A process that is not running the tool.
Idle ==
    [pc |-> "idle", op |-> "none", env_variable_string |-> <<>>,
     env_variable_exist_string |-> <<>>, ignore |-> FALSE, steps |-> <<>>,
     outcome |-> "none", echo |-> <<>>, err |-> 0, time_stamp |-> <<>>,
     before |-> <<>>, before_exists |-> FALSE, log |-> <<>>,
     handle |-> "none", size |-> 0, all_lines |-> <<>>, overlapped |-> FALSE,
     pos |-> 0, pending |-> <<>>, file |-> <<>>]

\* Lines an initial remote fragment may hold after its section header.
LineX == <<"autostart", "=", "true", NL>>
LineY == <<"priority", "=", "1", NL>>
LineD == sdk_sniffer_env_variable_string(<<"20231231235959">>)
LineE == <<"environment=", "SX_SNIFFER_ENABLE", "_PRM", "=", "1", NL>>
BodyPool == {LineX, LineY, LineD, LineE}

\* The bodies of at most n lines of the pool.
RECURSIVE BodiesOf(_, _)
BodiesOf(pool, n) ==
    IF n = 0 THEN {<<>>}
    ELSE LET shorter == BodiesOf(pool, n - 1)
         IN  shorter \cup {b \o <<l>> : b \in {s \in shorter : Len(s) = n - 1}, l \in pool}

Bodies(n) == BodiesOf(BodyPool, n)

\* Without the "\n" of its last line, when it has one.
NoFinalNewline(text) ==
    IF text # <<>> /\ text[Len(text)] = NL THEN SubSeq(text, 1, Len(text) - 1) ELSE text

\* Fragments of three lines after the header: a directive line between two other
\* lines, and the same directive line twice around another line.
OrderFragments ==
    {Join(<<SECTION_HEADER, LineX, d, LineY>>) : d \in {LineD, LineE}}
        \cup {Join(<<SECTION_HEADER, LineD, LineX, LineD>>)}

\* Initial remote fragments: an optional section header, up to MaxBody lines,
\* the last line with or without its newline; and the fragments of OrderFragments.
InitFragments ==
    LET full == {Join(h \o b) : h \in {<<>>, <<SECTION_HEADER>>}, b \in Bodies(MaxBody)}
    IN  full \cup {NoFinalNewline(f) : f \in full} \cup OrderFragments

Init ==
    /\ remoteExists \in BOOLEAN
    /\ remote \in (IF remoteExists THEN InitFragments ELSE {<<>>})
    /\ staging = <<>>
    /\ stagingExists = FALSE
    /\ targetDir = FALSE
    /\ proc = [p \in Procs |-> Idle]
    /\ calls = <<>>
    /\ started = 0
    /\ faults = 0
    /\ db = [features |-> <<>>, feature_keys |-> <<>>, syslog_configs |-> <<>>]
    /\ service_name = ""
    /\ output = [kind |-> "none"]

\* ------------------------------------------------------- external commands
\* clicommon.run_command: the command runs and succeeds, or it fails; a failure
\* ends the sequence where it stands unless the caller handles it.
run_command(result) ==
    /\ result \in {"ok", "fail"}
    /\ result = "fail" => faults < MaxFaults
    /\ faults' = faults + (IF result = "fail" THEN 1 ELSE 0)

\* open() and the reads and writes of the staging file: they succeed, or raise.
local_io(result) ==
    /\ result \in {"ok", "fail"}
    /\ result = "fail" => faults < MaxFaults
    /\ faults' = faults + (IF result = "fail" THEN 1 ELSE 0)

\* The processes once /tmp/tmp.conf has been unlinked or replaced: a file object
\* open on it is left with a file that no path leads to, which holds what
\* /tmp/tmp.conf held and which the process goes on reading.
Detached ==
    [q \in Procs |->
       IF proc[q].handle = "open"
       THEN [proc[q] EXCEPT !.handle = "orphan",
                            !.file = IF proc[q].pc \in {"reading", "readlines"}
                                     THEN staging ELSE <<>>]
       ELSE proc[q]]

\* The file that the file object of process p is open on.
FileOf(p) == IF proc[p].handle = "orphan" THEN proc[p].file ELSE staging

\* The locals with the file object closed.
Closed(locals) ==
    [locals EXCEPT !.handle = "none", !.pos = 0, !.pending = <<>>, !.file = <<>>]

\* What enable() and disable() echo around the call of their handler.
ENABLING == <<"Enabling SDK sniffer">>
DISABLING == <<"Disabling SDK sniffer">>
NOTE ==
    <<"Note: the sniffer file may exhaust the space on /var/log, please disable it when you are done with this sniffering.">>

\* The process ends: its result is recorded. A handler that returns (pcEnd is
\* "done") gives control back to its command, and enable() then echoes its note,
\* whatever the handler did; an exception leaves the command as well.
EndOn(processes, p, pcEnd, out, locals) ==
    /\ proc' = [processes EXCEPT ![p] =
                  [locals EXCEPT !.pc = pcEnd, !.outcome = out,
                                 !.echo = IF pcEnd = "done" /\ locals.op = "enable"
                                          THEN Append(@, NOTE) ELSE @]]
    /\ calls' = Append(calls, [op |-> proc[p].op, outcome |-> out,
                               ignore |-> locals.ignore,
                               time_stamp |-> proc[p].time_stamp,
                               before |-> proc[p].before, after |-> remote'])

End(p, pcEnd, out, locals) == EndOn(proc, p, pcEnd, out, locals)

Step(p, name) == [proc[p] EXCEPT !.steps = Append(@, name)]

\* ------------------------------------------------------------ the handlers
\* The locals of sdk_sniffer_enable once sniffer_filename_generate has returned.
WithFilename(locals, time_stamp) ==
    [locals EXCEPT !.pc = "receive",
                   !.time_stamp = time_stamp,
                   !.env_variable_string = sdk_sniffer_env_variable_string(time_stamp)]

\* The messages of click.echo and of log.log_error, as texts.
ALREADY_ENABLED == <<"sniffer is already enabled, do nothing">>
ALREADY_DISABLED == <<"sniffer is already disabled, do nothing">>

\* What the caller echoes after a restart that succeeded.
SuccessMessage(p) ==
    IF proc[p].op = "enable"
    THEN <<"SDK sniffer is Enabled, recording file is ">>
         \o sniffer_filename_generate(SDK_SNIFFER_TARGET_PATH, SDK_SNIFFER_FILENAME_PREFIX,
                                      SDK_SNIFFER_FILENAME_EXT, proc[p].time_stamp)
         \o <<".">>
    ELSE <<"SDK sniffer is Disabled.">>

\* "Not able to restart swss service, %s" % str(e): the text of the OSError is
\* whatever the failed command gave.
RestartError == <<"Not able to restart swss service, ", "str(e)">>

\* The processes once p has begun with these locals. History, for the properties:
\* overlapped records that the invocation ran while another one was running.
Begun(p, locals) ==
    LET running == {q \in Procs \ {p} : proc[q].pc \notin Ended}
    IN  [q \in Procs |->
           IF q = p THEN [locals EXCEPT !.overlapped = running # {}]
           ELSE IF q \in running THEN [proc[q] EXCEPT !.overlapped = TRUE]
           ELSE proc[q]]

\* enable() and disable(), once the prompt was answered with yes: the command
\* echoes what it is about to do and calls its handler. Of the invocations that
\* ended, only the last is remembered.
Begin(p, locals) ==
    /\ started < MaxCalls
    /\ started' = started + 1
    /\ calls' = IF calls = <<>> THEN <<>> ELSE <<calls[Len(calls)]>>
    /\ proc' = Begun(p, [locals EXCEPT
                           !.echo = <<IF locals.op = "enable" THEN ENABLING ELSE DISABLING>>])

\* sdk_sniffer_enable begins: sniffer_filename_generate tests os.path.exists(path);
\* when the directory is there it goes on to the time stamp, up to the call of
\* sniffer_env_variable_set.
sdk_sniffer_enable(p) ==
    /\ proc[p].pc \in Ended
    /\ UNCHANGED showVars
    /\ LET begun == [Idle EXCEPT !.pc = "makedirs", !.op = "enable", !.before = remote,
                                 !.before_exists = remoteExists]
       IN  IF targetDir
           THEN \E time_stamp \in TimeStamps : Begin(p, WithFilename(begun, time_stamp))
           ELSE Begin(p, begun)
    /\ UNCHANGED <<remote, remoteExists, staging, stagingExists, targetDir, faults>>

\* sniffer_filename_generate: os.makedirs(path), after the test found no directory.
\* It raises FileExistsError when the directory has been made since the test.
makedirs(p) ==
    /\ proc[p].pc = "makedirs"
    /\ UNCHANGED showVars
    /\ UNCHANGED <<remote, remoteExists, staging, stagingExists, started, faults>>
    /\ IF targetDir
       THEN /\ UNCHANGED targetDir
            /\ End(p, "aborted", "TargetDirFailure", proc[p])
       ELSE /\ targetDir' = TRUE
            /\ UNCHANGED calls
            /\ \E time_stamp \in TimeStamps :
                  proc' = [proc EXCEPT ![p] = WithFilename(proc[p], time_stamp)]

\* sdk_sniffer_disable up to its call of sniffer_env_variable_set.
sdk_sniffer_disable(p) ==
    /\ proc[p].pc \in Ended
    /\ UNCHANGED showVars
    /\ Begin(p, [Idle EXCEPT !.pc = "receive", !.op = "disable",
                              !.before = remote,
                              !.before_exists = remoteExists])
    /\ UNCHANGED <<remote, remoteExists, staging, stagingExists, targetDir, faults>>

\* A first command that empties the remote file instead of touching it.
conf_file_receive_truncating(p) ==
    /\ proc[p].pc = "receive"
    /\ UNCHANGED showVars
    /\ UNCHANGED <<staging, stagingExists, targetDir, started>>
    /\ \E result \in {"ok", "fail"} :
         /\ run_command(result)
         /\ IF result = "ok"
            THEN /\ remote' = <<>>
                 /\ remoteExists' = TRUE
                 /\ proc' = [proc EXCEPT ![p] = [Step(p, "touch") EXCEPT !.pc = "copy"]]
                 /\ UNCHANGED calls
            ELSE /\ UNCHANGED <<remote, remoteExists>>
                 /\ End(p, "aborted", "FetchFailure", Step(p, "touch"))

\* conf_file_receive, first command: docker exec syncd bash -c 'touch <file>'.
conf_file_receive(p) ==
    /\ proc[p].pc = "receive"
    /\ UNCHANGED showVars
    /\ UNCHANGED <<remote, staging, stagingExists, targetDir, started>>
    /\ \E result \in {"ok", "fail"} :
         /\ run_command(result)
         /\ IF result = "ok"
            THEN /\ remoteExists' = TRUE
                 /\ proc' = [proc EXCEPT ![p] = [Step(p, "touch") EXCEPT !.pc = "copy"]]
                 /\ UNCHANGED calls
            ELSE /\ UNCHANGED remoteExists
                 /\ End(p, "aborted", "FetchFailure", Step(p, "touch"))

\* conf_file_copy(SNIFFER_CONF_FILE_IN_CONTAINER, TMP_SNIFFER_CONF_FILE).  The copy
\* either replaces /tmp/tmp.conf by a new file or rewrites the file in place.
conf_file_copy_in(p) ==
    /\ proc[p].pc = "copy"
    /\ UNCHANGED showVars
    /\ UNCHANGED <<remote, remoteExists, targetDir, started>>
    /\ \E result \in {"ok", "fail"} :
         /\ run_command(result)
         /\ result = "ok" => remoteExists
         /\ IF result = "ok"
            THEN /\ staging' = remote
                 /\ stagingExists' = TRUE
                 /\ \E replaced \in BOOLEAN :
                      proc' = [(IF replaced THEN Detached ELSE proc)
                                  EXCEPT ![p] = [Step(p, "fetch") EXCEPT !.pc = "read"]]
                 /\ UNCHANGED calls
            ELSE /\ UNCHANGED <<staging, stagingExists>>
                 /\ End(p, "aborted", "FetchFailure", Step(p, "fetch"))

\* env_variable_read, one read of the file by the loop "for env_variable_string in
\* conf_file": the loop is given the lines the read completes and breaks at the
\* first that contains the name; a read that gives nothing ends the line that was
\* buffered, and ends the loop (else clause: '') when nothing was buffered.
env_variable_read_step(locals, content) ==
    LET data == RawRead(content, locals.pos)
        text == Pack(locals.pending \o data)
        found == env_variable_read(Available(text, data), ENV_VARIABLE_SX_SNIFFER)
    IN  IF found # <<>> \/ (data = <<>> /\ locals.pending = <<>>)
        THEN [Closed(locals) EXCEPT !.pc = "decide", !.env_variable_exist_string = found]
        ELSE [locals EXCEPT !.pc = "reading",
                            !.pos = @ + Bytes(data),
                            !.pending = Buffered(text, data)]

\* sniffer_env_variable_set: env_variable_exist_string = env_variable_read(name).
\* open(file, 'r'), which raises when the staging file is missing.
locate(p) ==
    /\ proc[p].pc = "read"
    /\ UNCHANGED showVars
    /\ UNCHANGED <<remote, remoteExists, staging, stagingExists, targetDir, started>>
    /\ \E result \in {"ok", "fail"} :
         /\ IF stagingExists THEN local_io(result)
                             ELSE result = "fail" /\ UNCHANGED faults
         /\ IF result = "ok"
            THEN /\ proc' = [proc EXCEPT ![p] =
                               [Step(p, "locate") EXCEPT !.pc = "reading",
                                                         !.handle = "open"]]
                 /\ UNCHANGED calls
            ELSE End(p, "aborted", "MutationFailure", Step(p, "locate"))

\* env_variable_read: a read of the file by the loop.  Nothing locks the file:
\* what it holds may have changed since it was opened or read before.
env_variable_read_next(p) ==
    /\ proc[p].pc = "reading"
    /\ UNCHANGED showVars
    /\ UNCHANGED <<remote, remoteExists, staging, stagingExists, targetDir, calls, started,
                   faults>>
    /\ proc' = [proc EXCEPT ![p] = env_variable_read_step(proc[p], FileOf(p))]

\* The branch without ignore = True where the sniffer is already disabled: the
\* unchanged staging file is sent.
decide_disabled_not_ignored(p) ==
    /\ proc[p].pc = "decide"
    /\ UNCHANGED showVars
    /\ LET exists == proc[p].env_variable_exist_string # <<>>
           enable == proc[p].op = "enable"
       IN  proc' = [proc EXCEPT ![p] =
             IF exists /\ enable
             THEN [Step(p, "decide") EXCEPT !.pc = "cleanup", !.ignore = TRUE,
                                            !.echo = Append(@, ALREADY_ENABLED)]
             ELSE IF exists
             THEN [Step(p, "decide") EXCEPT !.pc = "delete"]
             ELSE IF enable
             THEN [Step(p, "decide") EXCEPT !.pc = "write"]
             ELSE [Step(p, "decide") EXCEPT !.pc = "send",
                                            !.echo = Append(@, ALREADY_DISABLED)]]
    /\ UNCHANGED <<remote, remoteExists, staging, stagingExists, targetDir, calls, started,
                   faults>>

\* sniffer_env_variable_set: the branch on env_variable_exist_string and enable.
decide(p) ==
    /\ proc[p].pc = "decide"
    /\ UNCHANGED showVars
    /\ LET exists == proc[p].env_variable_exist_string # <<>>
           enable == proc[p].op = "enable"
       IN  proc' = [proc EXCEPT ![p] =
             IF exists /\ enable
             THEN [Step(p, "decide") EXCEPT !.pc = "cleanup", !.ignore = TRUE,
                                            !.echo = Append(@, ALREADY_ENABLED)]
             ELSE IF exists
             THEN [Step(p, "decide") EXCEPT !.pc = "delete"]
             ELSE IF enable
             THEN [Step(p, "decide") EXCEPT !.pc = "write"]
             ELSE [Step(p, "decide") EXCEPT !.pc = "cleanup", !.ignore = TRUE,
                                            !.echo = Append(@, ALREADY_DISABLED)]]
    /\ UNCHANGED <<remote, remoteExists, staging, stagingExists, targetDir, calls, started,
                   faults>>

\* env_variable_write: open(TMP_SNIFFER_CONF_FILE, 'a').  Append mode creates the
\* file when it is missing.
env_variable_write_open(p) ==
    /\ proc[p].pc = "write"
    /\ UNCHANGED showVars
    /\ UNCHANGED <<remote, remoteExists, targetDir, started>>
    /\ \E result \in {"ok", "fail"} :
         /\ local_io(result)
         /\ IF result = "ok"
            THEN /\ staging' = IF stagingExists THEN staging ELSE <<>>
                 /\ stagingExists' = TRUE
                 /\ proc' = [proc EXCEPT ![p] =
                                [proc[p] EXCEPT !.pc = "getsize", !.handle = "open"]]
                 /\ UNCHANGED calls
            ELSE /\ UNCHANGED <<staging, stagingExists>>
                 /\ End(p, "aborted", "MutationFailure", Step(p, "mutate"))

\* env_variable_write: os.path.getsize(TMP_SNIFFER_CONF_FILE), by the path; it
\* raises when the file is no longer there.
env_variable_write_getsize(p) ==
    /\ proc[p].pc = "getsize"
    /\ UNCHANGED showVars
    /\ UNCHANGED <<remote, remoteExists, staging, stagingExists, targetDir, started, faults>>
    /\ IF stagingExists
       THEN /\ proc' = [proc EXCEPT ![p] =
                           [proc[p] EXCEPT !.pc = "append", !.size = Bytes(staging)]]
            /\ UNCHANGED calls
       ELSE End(p, "aborted", "MutationFailure",
                [Step(p, "mutate") EXCEPT !.handle = "none"])

\* env_variable_write: the two writes, which reach the file when it is closed; the
\* file was opened for appending, so they go to the end of what it holds by then.
env_variable_write_close(p) ==
    /\ proc[p].pc = "append"
    /\ UNCHANGED showVars
    /\ UNCHANGED <<remote, remoteExists, stagingExists, targetDir, calls, started, faults>>
    /\ staging' = IF proc[p].handle = "open"
                  THEN Pack(staging \o env_variable_write(proc[p].size,
                                                          proc[p].env_variable_string))
                  ELSE staging
    /\ proc' = [proc EXCEPT ![p] =
                   [Closed(Step(p, "mutate")) EXCEPT !.pc = "send", !.size = 0]]

\* env_variable_delete, one read of the file by readlines(): the lines the read
\* completes are added to all_lines; a read that gives nothing ends the line that
\* was buffered, and ends readlines() when nothing was buffered.
readlines_step(locals, content) ==
    LET data == RawRead(content, locals.pos)
        text == Pack(locals.pending \o data)
    IN  IF data = <<>> /\ locals.pending = <<>>
        THEN [locals EXCEPT !.pc = "rewrite", !.pos = 0, !.file = <<>>]
        ELSE [locals EXCEPT !.pc = "readlines",
                            !.all_lines = @ \o Lines(Available(text, data)),
                            !.pos = @ + Bytes(data),
                            !.pending = Buffered(text, data)]

\* env_variable_delete: open(TMP_SNIFFER_CONF_FILE, 'r+'), which raises when the
\* file is missing.
env_variable_delete_read(p) ==
    /\ proc[p].pc = "delete"
    /\ UNCHANGED showVars
    /\ UNCHANGED <<remote, remoteExists, staging, stagingExists, targetDir, started>>
    /\ \E result \in {"ok", "fail"} :
         /\ IF stagingExists THEN local_io(result)
                             ELSE result = "fail" /\ UNCHANGED faults
         /\ IF result = "ok"
            THEN /\ proc' = [proc EXCEPT ![p] =
                                [proc[p] EXCEPT !.pc = "readlines", !.handle = "open"]]
                 /\ UNCHANGED calls
            ELSE End(p, "aborted", "MutationFailure", Step(p, "mutate"))

\* env_variable_delete: a read of the file by readlines().
env_variable_delete_read_next(p) ==
    /\ proc[p].pc = "readlines"
    /\ UNCHANGED showVars
    /\ UNCHANGED <<remote, remoteExists, staging, stagingExists, targetDir, calls, started,
                   faults>>
    /\ proc' = [proc EXCEPT ![p] = readlines_step(proc[p], FileOf(p))]

\* What env_variable_delete writes back: the lines read that differ from the line
\* to delete.
Kept(p) == Pack(env_variable_delete(proc[p].all_lines, proc[p].env_variable_exist_string))

\* env_variable_delete: seek(0) and the writes of the lines kept, which reach the
\* file, from its first byte on, when truncate() flushes them.
env_variable_delete_write(p) ==
    /\ proc[p].pc = "rewrite"
    /\ UNCHANGED showVars
    /\ UNCHANGED <<remote, remoteExists, stagingExists, targetDir, calls, started, faults>>
    /\ staging' = IF proc[p].handle = "open" THEN WriteAtStart(staging, Kept(p))
                                               ELSE staging
    /\ proc' = [proc EXCEPT ![p] = [proc[p] EXCEPT !.pc = "truncate"]]

\* env_variable_delete: truncate() at the end of what was written, and close().
env_variable_delete_truncate(p) ==
    /\ proc[p].pc = "truncate"
    /\ UNCHANGED showVars
    /\ UNCHANGED <<remote, remoteExists, stagingExists, targetDir, calls, started, faults>>
    /\ staging' = IF proc[p].handle = "open" THEN Pack(TakeBytes(staging, Bytes(Kept(p))))
                                               ELSE staging
    /\ proc' = [proc EXCEPT ![p] =
                   [Closed(Step(p, "mutate")) EXCEPT !.pc = "send", !.all_lines = <<>>]]

\* What a docker cp that failed has left of its destination.  The copy does not
\* replace the file atomically: when it failed before it wrote, the destination
\* is as it was; when it failed while it wrote, the destination holds the first
\* part of the source, cut between two tokens of the text, none included.  The
\* copies followed are those that failed within the first MaxWritten tokens.
conf_file_copy_failed(dest, src) ==
    {dest} \cup {SubSeq(src, 1, n) : n \in 0..(Len(src) - 1) \cap 0..MaxWritten}

\* A config_file_send that tries again after a failed copy.
config_file_send_retry(p) ==
    /\ proc[p].pc = "send"
    /\ UNCHANGED showVars
    /\ UNCHANGED <<staging, stagingExists, targetDir, started>>
    /\ \E result \in {"ok", "fail"} :
         /\ IF stagingExists THEN run_command(result)
                             ELSE result = "fail" /\ UNCHANGED faults
         /\ IF result = "ok"
            THEN /\ remote' = staging
                 /\ remoteExists' = TRUE
                 /\ proc' = [proc EXCEPT ![p] = [Step(p, "publish") EXCEPT !.pc = "cleanup"]]
                 /\ UNCHANGED calls
            ELSE /\ remote' \in (IF stagingExists THEN conf_file_copy_failed(remote, staging)
                                                   ELSE {remote})
                 /\ UNCHANGED <<remoteExists, calls>>
                 /\ proc' = [proc EXCEPT ![p] = Step(p, "publish")]

\* sniffer_env_variable_set: if not ignore: config_file_send().  docker cp fails
\* when the staging file is missing, and then writes nothing; a copy that fails
\* otherwise leaves the remote fragment as it was or partly written.  The failure
\* leaves sniffer_env_variable_set before its rm -rf.
config_file_send(p) ==
    /\ proc[p].pc = "send"
    /\ UNCHANGED showVars
    /\ UNCHANGED <<staging, stagingExists, targetDir, started>>
    /\ \E result \in {"ok", "fail"} :
         /\ IF stagingExists THEN run_command(result)
                             ELSE result = "fail" /\ UNCHANGED faults
         /\ IF result = "ok"
            THEN /\ remote' = staging
                 /\ remoteExists' = TRUE
                 /\ proc' = [proc EXCEPT ![p] = [Step(p, "publish") EXCEPT !.pc = "cleanup"]]
                 /\ UNCHANGED calls
            ELSE /\ remote' \in (IF stagingExists THEN conf_file_copy_failed(remote, staging)
                                                   ELSE {remote})
                 /\ UNCHANGED remoteExists
                 /\ End(p, "aborted", "PublishFailure", Step(p, "publish"))

\* A caller that restarts swss whatever sniffer_env_variable_set returned.
after_cleanup_always_restart(p) ==
    /\ proc' = [Detached EXCEPT ![p] = [Step(p, "cleanup") EXCEPT !.pc = "restart"]]
    /\ UNCHANGED calls

\* What follows the rm -rf of sniffer_env_variable_set: it returns ignore, and the
\* caller either is done (ignore) or goes on to restart_swss.
after_cleanup(p) ==
    IF proc[p].ignore
    THEN EndOn(Detached, p, "done", "AlreadyInDesiredState", Step(p, "cleanup"))
    ELSE /\ proc' = [Detached EXCEPT ![p] = [Step(p, "cleanup") EXCEPT !.pc = "restart"]]
         /\ UNCHANGED calls

\* The rm -rf placed under "if not ignore": nothing is removed on the no-op paths.
cleanup_unless_ignore(p) ==
    /\ proc[p].pc = "cleanup"
    /\ UNCHANGED showVars
    /\ UNCHANGED <<remote, remoteExists, targetDir, started>>
    /\ \E result \in {"ok", "fail"} :
         /\ run_command(result)
         /\ IF result = "ok"
            THEN /\ staging' = IF proc[p].ignore THEN staging ELSE <<>>
                 /\ stagingExists' = IF proc[p].ignore THEN stagingExists ELSE FALSE
                 /\ after_cleanup(p)
            ELSE /\ UNCHANGED <<staging, stagingExists>>
                 /\ End(p, "aborted", "CleanupFailure", Step(p, "cleanup"))

\* sniffer_env_variable_set: rm -rf /tmp/tmp.conf, then return ignore.
cleanup(p) ==
    /\ proc[p].pc = "cleanup"
    /\ UNCHANGED showVars
    /\ UNCHANGED <<remote, remoteExists, targetDir, started>>
    /\ \E result \in {"ok", "fail"} :
         /\ run_command(result)
         /\ IF result = "ok"
            THEN /\ staging' = <<>>
                 /\ stagingExists' = FALSE
                 /\ after_cleanup(p)
            ELSE /\ UNCHANGED <<staging, stagingExists>>
                 /\ End(p, "aborted", "CleanupFailure", Step(p, "cleanup"))

\* The caller without its "if err != 0: return": the message follows a failed restart.
restart_swss_err_ignored(p) ==
    /\ proc[p].pc = "restart"
    /\ UNCHANGED showVars
    /\ UNCHANGED <<remote, remoteExists, staging, stagingExists, targetDir, started>>
    /\ \E result \in {"ok", "fail"} :
         /\ run_command(result)
         /\ End(p, "done", IF result = "ok" THEN "Applied" ELSE "RestartFailure",
                [Step(p, "restart") EXCEPT
                   !.err = IF result = "ok" THEN 0 ELSE 1,
                   !.echo = Append(@, SuccessMessage(p))])

\* restart_swss and the lines of the caller after it.  A failure of the command
\* that is an OSError is caught, logged and returned as 1, and the caller returns
\* without its message; a failure of another kind (SystemExit, CalledProcessError)
\* is not caught: it leaves restart_swss and the caller, err is never assigned.
restart_swss(p) ==
    /\ proc[p].pc = "restart"
    /\ UNCHANGED showVars
    /\ UNCHANGED <<remote, remoteExists, staging, stagingExists, targetDir, started>>
    /\ \E result \in {"ok", "fail"} :
         /\ run_command(result)
         /\ IF result = "ok"
            THEN End(p, "done", "Applied",
                     [Step(p, "restart") EXCEPT
                        !.echo = Append(@, SuccessMessage(p))])
            ELSE \E is_OSError \in BOOLEAN :
                   IF is_OSError
                   THEN End(p, "done", "RestartFailure",
                            [Step(p, "restart") EXCEPT
                               !.err = 1,
                               !.log = Append(@, RestartError)])
                   ELSE End(p, "aborted", "RestartFailure", Step(p, "restart"))

\* One step of process p.
Run(p) ==
    \/ makedirs(p)
    \/ conf_file_receive(p)
    \/ conf_file_copy_in(p)
    \/ locate(p)
    \/ env_variable_read_next(p)
    \/ decide(p)
    \/ env_variable_write_open(p)
    \/ env_variable_write_getsize(p)
    \/ env_variable_write_close(p)
    \/ env_variable_delete_read(p)
    \/ env_variable_delete_read_next(p)
    \/ env_variable_delete_write(p)
    \/ env_variable_delete_truncate(p)
    \/ config_file_send(p)
    \/ cleanup(p)
    \/ restart_swss(p)

\* The tool is run by one process at a time: a run begins when no other is going on.
Sequential(p) == p = 1 /\ \A q \in Procs : proc[q].pc \in Ended

Next ==
    \E p \in Procs :
        \/ Sequential(p) /\ sdk_sniffer_enable(p)
        \/ Sequential(p) /\ sdk_sniffer_disable(p)
        \/ Run(p)

Spec == Init /\ [][Next]_vars

\* ------------------------------------------------------------------ claims
\* Whether some line of a content contains the directive name.
DirectivePresent(content) ==
    LET lines == Lines(content)
    IN  \E i \in DOMAIN lines : Contains(lines[i], ENV_VARIABLE_SX_SNIFFER)

\* The lines of a content that contain the directive name.
DirectiveLines(content) ==
    {l \in Range(Lines(content)) : Contains(l, ENV_VARIABLE_SX_SNIFFER)}

NoFailure == {"Applied", "AlreadyInDesiredState"}

\* Two invocations of the operation o, one right after the other, both without failure.
Twice(i, o) ==
    /\ i \in 1..(Len(calls) - 1)
    /\ calls[i].op = o /\ calls[i + 1].op = o
    /\ calls[i].outcome \in NoFailure /\ calls[i + 1].outcome \in NoFailure

\* C1: idempotence of Enable.  Of two enable invocations run one after the other
\* without failure, the second returns ignore = True (AlreadyInDesiredState) and
\* leaves the remote fragment exactly as the first left it, whatever the initial
\* fragment.
C1_EnableIdempotent ==
    \A i \in 1..(Len(calls) - 1) :
        Twice(i, "enable") =>
            /\ calls[i + 1].ignore
            /\ calls[i + 1].outcome = "AlreadyInDesiredState"
            /\ calls[i + 1].after = calls[i].after

\* A first enable that changed a non-empty fragment, then a second enable at
\* another time.
C1_Witness ==
    /\ Twice(1, "enable")
    /\ calls[1].outcome = "Applied"
    /\ calls[1].before # <<>>
    /\ calls[1].time_stamp # calls[2].time_stamp

\* C2 as stated: idempotence of Disable for every initial fragment, those with
\* several different lines containing the directive name included.
C2_DisableIdempotent_AnyFragment ==
    \A i \in 1..(Len(calls) - 1) :
        Twice(i, "disable") =>
            /\ calls[i + 1].ignore
            /\ calls[i + 1].outcome = "AlreadyInDesiredState"
            /\ calls[i + 1].after = calls[i].after

\* C2 (amended): idempotence of Disable when the lines of the initial fragment
\* that contain the directive name are all the same line (at most one distinct
\* such line).  Of two disable invocations run one after the other without
\* failure, the second returns AlreadyInDesiredState and leaves the remote
\* fragment exactly as the first left it.
C2_DisableIdempotent ==
    \A i \in 1..(Len(calls) - 1) :
        (Twice(i, "disable") /\ Cardinality(DirectiveLines(calls[i].before)) <= 1) =>
            /\ calls[i + 1].ignore
            /\ calls[i + 1].outcome = "AlreadyInDesiredState"
            /\ calls[i + 1].after = calls[i].after

\* A first disable that removed the directive line, twice in the fragment, then a
\* second disable.
C2_Witness ==
    /\ Twice(1, "disable")
    /\ calls[1].outcome = "Applied"
    /\ Cardinality(DirectiveLines(calls[1].before)) = 1
    /\ calls[1].before = Join(<<SECTION_HEADER, LineD, LineX, LineD>>)

\* Whether process p has been through a step, and where in its invocation.
Did(p, name) == name \in Range(proc[p].steps)
Positions(p, name) == {i \in DOMAIN proc[p].steps : proc[p].steps[i] = name}

\* Process p has returned to the command line: normally, or by a fatal failure.
Returned(p) == proc[p].pc \in {"done", "aborted"}

\* C3: cleanup guarantee.  When an invocation has returned with outcome Applied,
\* AlreadyInDesiredState or RestartFailure, /tmp/tmp.conf does not exist.
C3_StagingGoneAfterReturn ==
    \A p \in Procs :
        (proc[p].pc = "done"
           /\ proc[p].outcome \in {"Applied", "AlreadyInDesiredState", "RestartFailure"})
        => ~stagingExists

\* An enable that found the directive, fetched the fragment and returned as a no-op.
C3_Witness ==
    \E p \in Procs :
        /\ proc[p].pc = "done"
        /\ proc[p].outcome = "AlreadyInDesiredState"
        /\ Did(p, "fetch")
        /\ proc[p].before # <<>>
        /\ ~stagingExists

\* C4: the staging file is deleted on every exit path of an invocation that got
\* past the fetch, fatal failures after the fetch included: once the invocation
\* has ended and its fetch had created /tmp/tmp.conf, the file does not exist.
C4_StagingGoneOnEveryExit ==
    \A p \in Procs :
        (Returned(p) /\ Did(p, "fetch") /\ proc[p].outcome # "FetchFailure")
        => ~stagingExists

\* C5: the cleanup is the final step of every invocation, after the publish and
\* after the restart attempt; no protocol step follows it.  The code does not
\* keep this order: sniffer_env_variable_set removes the staging file before it
\* returns to the caller that restarts.
C5_CleanupIsLast ==
    \A p \in Procs :
        \A i \in Positions(p, "cleanup") : i = Len(proc[p].steps)

\* C6: a no-op leaves the remote alone.  When the directive is present and enable
\* is asked, or absent and disable is asked, then once the decision is made the
\* invocation never mutates the staging file, never publishes, never restarts,
\* and the remote fragment keeps the content it had before the invocation; the
\* invocation returns ignore = True, AlreadyInDesiredState.
C6_NoOpLeavesRemote ==
    \A p \in Procs :
        (Did(p, "decide") /\ (DirectivePresent(proc[p].before) <=> proc[p].op = "enable"))
        => /\ proc[p].ignore
           /\ ~Did(p, "mutate") /\ ~Did(p, "publish") /\ ~Did(p, "restart")
           /\ stagingExists => staging = proc[p].before
           /\ remote = proc[p].before
           /\ proc[p].pc = "done" =>
                /\ proc[p].outcome = "AlreadyInDesiredState"
                /\ calls[Len(calls)].after = calls[Len(calls)].before

\* A disable of a fragment that has lines but no directive, returned.
C6_Witness ==
    \E p \in Procs :
        /\ proc[p].pc = "done"
        /\ proc[p].op = "disable"
        /\ proc[p].before = Join(<<SECTION_HEADER, LineX>>)
        /\ proc[p].outcome = "AlreadyInDesiredState"
        /\ remote = proc[p].before

\* The invocation of process p has published: its copy back to the remote succeeded.
Published(p) == Did(p, "publish") /\ proc[p].outcome # "PublishFailure"

\* C7: enable from empty.  With the remote fragment empty, the fragment published
\* by an enable is the section header line followed by one directive line,
\* environment=SX_SNIFFER_ENABLE=1,SX_SNIFFER_TARGET=<path>, each ended by a
\* newline, <path> being /var/log/sdk_dbg/sx_sdk_sniffer_<time stamp>.pcap.
C7_EnableFromEmpty ==
    \A p \in Procs :
        (proc[p].op = "enable" /\ proc[p].before = <<>> /\ Published(p))
        => remote = <<"[program:syncd]", "\n">>
                    \o <<"environment=", "SX_SNIFFER_ENABLE", "=", "1", ",",
                         "SX_SNIFFER_TARGET", "=", "/var/log/sdk_dbg/", "sx_sdk_sniffer_">>
                    \o proc[p].time_stamp \o <<".pcap", "\n">>

\* The scenario of the specification: enable of the empty fragment at 20240101000000.
C7_Witness ==
    \E p \in Procs :
        /\ proc[p].pc = "done"
        /\ proc[p].op = "enable"
        /\ proc[p].before = <<>>
        /\ proc[p].outcome = "Applied"
        /\ remote = <<"[program:syncd]", "\n", "environment=", "SX_SNIFFER_ENABLE", "=",
                      "1", ",", "SX_SNIFFER_TARGET", "=", "/var/log/sdk_dbg/",
                      "sx_sdk_sniffer_", "20240101000000", ".pcap", "\n">>

\* The first line of a sequence of lines that contains the directive name.
FirstDirective(lines) ==
    lines[CHOOSE i \in DOMAIN lines :
             /\ Contains(lines[i], ENV_VARIABLE_SX_SNIFFER)
             /\ \A j \in 1..(i - 1) : ~Contains(lines[j], ENV_VARIABLE_SX_SNIFFER)]

\* The lines of a content but those equal to its first directive line, in order.
WithoutFirstDirective(content) ==
    LET lines == Lines(content)
        first == FirstDirective(lines)
        Other(l) == l # first
    IN  Join(SelectSeq(lines, Other))

\* C8: order preservation on Disable.  The fragment published by a disable is the
\* fragment before it with the lines equal to the located directive line taken
\* out, the other lines unchanged and in their order; [header, X, directive, Y]
\* becomes [header, X, Y].
C8_DisableKeepsOrder ==
    \A p \in Procs :
        (proc[p].op = "disable" /\ Published(p))
        => /\ remote = WithoutFirstDirective(proc[p].before)
           /\ proc[p].before = Join(<<SECTION_HEADER, LineX, LineD, LineY>>)
                => remote = Join(<<SECTION_HEADER, LineX, LineY>>)

\* The disable of [header, X, directive, Y], returned.
C8_Witness ==
    \E p \in Procs :
        /\ proc[p].pc = "done"
        /\ proc[p].op = "disable"
        /\ proc[p].outcome = "Applied"
        /\ proc[p].before = Join(<<SECTION_HEADER, LineX, LineD, LineY>>)
        /\ remote = Join(<<SECTION_HEADER, LineX, LineY>>)

\* An enable of the empty fragment and, right after it, a disable, both without failure.
EnableThenDisable(i) ==
    /\ i \in 1..(Len(calls) - 1)
    /\ calls[i].op = "enable" /\ calls[i].before = <<>>
    /\ calls[i + 1].op = "disable"
    /\ calls[i].outcome \in NoFailure /\ calls[i + 1].outcome \in NoFailure

\* C9: round trip.  From an empty remote fragment, an enable then a disable, both
\* without failure, both report Applied and leave a fragment of which no line
\* contains the directive name.
C9_RoundTrip ==
    \A i \in 1..(Len(calls) - 1) :
        EnableThenDisable(i) =>
            /\ calls[i].outcome = "Applied"
            /\ calls[i + 1].outcome = "Applied"
            /\ DirectivePresent(calls[i].after)
            /\ ~DirectivePresent(calls[i + 1].after)

\* The round trip made: the section header is what remains.
C9_Witness ==
    /\ EnableThenDisable(1)
    /\ calls[2].after = SECTION_HEADER
    /\ remote = SECTION_HEADER

\* C10: a restart failure leaves the configuration applied.  When the fragment
\* was empty, enable was asked and the restart failed, the invocation ends with
\* RestartFailure, the remote fragment holds the new directive line, it was
\* published once, and the message of success was not echoed: the command has
\* echoed "Enabling SDK sniffer" and nothing of the handler.  When the failure
\* was caught the invocation has returned with err = 1, the failure is logged
\* and enable() has echoed its note; else it was left by the exception, nothing
\* is logged and nothing more is echoed.
C10_RestartFailureKeepsConfig ==
    \A p \in Procs :
        (Returned(p) /\ proc[p].op = "enable" /\ proc[p].before = <<>>
           /\ Did(p, "restart") /\ proc[p].outcome # "Applied")
        => /\ proc[p].outcome = "RestartFailure"
           /\ Lines(remote) = <<SECTION_HEADER, proc[p].env_variable_string>>
           /\ Cardinality(Positions(p, "publish")) = 1
           /\ proc[p].steps[Len(proc[p].steps)] = "restart"
           /\ \A i \in DOMAIN proc[p].echo :
                 proc[p].echo[i][1] # "SDK sniffer is Enabled, recording file is "
           /\ IF proc[p].pc = "done"
              THEN /\ proc[p].err = 1 /\ proc[p].log = <<RestartError>>
                   /\ proc[p].echo =
                        << <<"Enabling SDK sniffer">>,
                           <<"Note: the sniffer file may exhaust the space on /var/log, please disable it when you are done with this sniffering.">> >>
              ELSE /\ proc[p].err = 0 /\ proc[p].log = <<>>
                   /\ proc[p].echo = << <<"Enabling SDK sniffer">> >>

\* An enable of the empty fragment whose restart failed.
C10_Witness ==
    \E p \in Procs :
        /\ proc[p].pc = "done" /\ proc[p].op = "enable" /\ proc[p].before = <<>>
        /\ proc[p].err = 1
        /\ proc[p].outcome = "RestartFailure"
        /\ DirectivePresent(remote)

\* The number of lines of a content that contain the directive name.
DirectiveCount(content) ==
    LET lines == Lines(content)
    IN  Cardinality({i \in DOMAIN lines : Contains(lines[i], ENV_VARIABLE_SX_SNIFFER)})

\* C11: at-most-one-directive invariant.  With invocations run one at a time,
\* enable and disable in any order, with or without failures, no step takes the
\* remote fragment from at most one line containing the directive name to more
\* than one: a fragment that starts with at most one such line keeps at most one.
C11_AtMostOneDirective ==
    [][remote' # remote => (DirectiveCount(remote) <= 1 => DirectiveCount(remote') <= 1)]_vars

\* An enable that added the directive though its restart failed, then a second
\* enable: one directive line.
C11_Witness ==
    /\ Len(calls) = 2
    /\ calls[1].op = "enable" /\ calls[1].outcome = "RestartFailure"
    /\ DirectiveCount(calls[1].before) = 0
    /\ calls[2].op = "enable" /\ calls[2].outcome = "AlreadyInDesiredState"
    /\ DirectiveCount(remote) = 1

\* ------------------------------------------------------- concurrent invocations
\* Two processes run the tool, each once, at the same time: their steps interleave
\* in any order on the one staging path and the one remote fragment.
Concurrent(p) == proc[p].pc = "idle"

NextConc ==
    \E p \in Procs :
        \/ Concurrent(p) /\ sdk_sniffer_enable(p)
        \/ Concurrent(p) /\ sdk_sniffer_disable(p)
        \/ Run(p)

\* The concurrent runs start from the fragments of at most MaxBodyConc lines after
\* the optional header, each a line without the directive name or a directive line.
ConcPool == {LineX, LineD}

ConcFragments ==
    LET full == {Join(h \o b) : h \in {<<>>, <<SECTION_HEADER>>},
                                b \in BodiesOf(ConcPool, MaxBodyConc)}
    IN  full \cup {NoFinalNewline(f) : f \in full}

InitConc ==
    /\ Init
    /\ remote \in ConcFragments

SpecConc == InitConc /\ [][NextConc]_vars


\* The step is a publish of process p: docker cp of the staging file succeeded.
Publishes(p) == proc[p].pc = "send" /\ proc'[p].pc = "cleanup"

\* The step is a copy back of process p that failed.
FailsToPublish(p) == proc[p].pc = "send" /\ proc'[p].outcome = "PublishFailure"

\* C12: concurrent corruption.  With two invocations running at the same time, the
\* remote fragment can come to hold more than one line with the directive name:
\* under SpecConc a step can raise the count above one, and the step that does so
\* is the copy back, completed or failed while it wrote, of an invocation that ran
\* while the other one was running, after the other one had fetched into the
\* shared staging file.
C12_CorruptionOnlyByInterleaving ==
    [][(remote' # remote /\ DirectiveCount(remote') > 1 /\ DirectiveCount(remote) <= 1)
         => \E p \in Procs : \E q \in Procs \ {p} :
              /\ Publishes(p) \/ FailsToPublish(p)
              /\ proc[p].overlapped /\ proc[q].overlapped
              /\ Did(q, "fetch")]_vars

\* Two enables that started on an empty fragment; the remote has two directive lines.
C12_Witness ==
    /\ \A p \in Procs : proc[p].op = "enable" /\ proc[p].before = <<>>
    /\ DirectiveCount(remote) > 1
    /\ faults = 0


\* The invocation of process p ended by a failure of its fetch.
FetchFailed(p) == proc[p].outcome = "FetchFailure"

\* C13 as stated: after a FetchFailure the remote fragment is in the state,
\* existence and content, it had before the invocation.
C13_FetchFailureTouchesNothing ==
    \A p \in Procs :
        FetchFailed(p)
        => /\ proc[p].pc = "aborted"
           /\ Range(proc[p].steps) \subseteq {"touch", "fetch"}
           /\ remote = proc[p].before
           /\ remoteExists = proc[p].before_exists

\* C13: FetchFailure.  When the touch or the copy into /tmp/tmp.conf fails, the
\* invocation aborts before locate, mutate, publish and restart, and the content
\* of the remote fragment is what it was before the invocation; its existence is
\* the same as well, except that a fragment that did not exist has been created
\* empty when the touch succeeded and the copy failed.
C13_FetchFailureKeepsContent ==
    \A p \in Procs :
        FetchFailed(p)
        => /\ proc[p].pc = "aborted"
           /\ proc[p].steps \in {<<"touch">>, <<"touch", "fetch">>}
           /\ remote = proc[p].before
           /\ \/ remoteExists = proc[p].before_exists
              \/ /\ ~proc[p].before_exists /\ remoteExists
                 /\ proc[p].steps = <<"touch", "fetch">>
                 /\ remote = <<>>

\* The copy failed after the touch had created the fragment.
C13_Witness ==
    \E p \in Procs :
        /\ FetchFailed(p)
        /\ proc[p].steps = <<"touch", "fetch">>
        /\ ~proc[p].before_exists
        /\ remoteExists /\ remote = <<>>


\* What the mutation of process p makes of the fragment it started from.
Mutated(p) ==
    IF proc[p].op = "enable"
    THEN proc[p].before
           \o env_variable_write(Bytes(proc[p].before), proc[p].env_variable_string)
    ELSE env_variable_delete(Lines(proc[p].before), proc[p].env_variable_exist_string)

Beginnings(text) == {SubSeq(text, 1, n) : n \in 0..(Len(text) - 1)}

ProtocolOrder == <<"fetch", "locate", "decide", "mutate", "publish", "restart">>
ProtocolSteps == Range(ProtocolOrder)
Rank == [name \in ProtocolSteps |-> CHOOSE i \in DOMAIN ProtocolOrder : ProtocolOrder[i] = name]
StepRank(name) == Rank[name]

\* C15: step ordering and restart gating.  In every invocation the steps made
\* among fetch, locate, decide, mutate, publish and restart are made in that
\* order, each at most once and none without the one before it (mutate needs the
\* decision, publish the mutate, restart the publish); when the restart is
\* attempted the remote fragment holds the mutated content, i.e. the publish of
\* the mutation has completed.
C15_StepOrderAndRestartGating ==
    \A p \in Procs :
        LET steps == proc[p].steps
            ordered == {i \in DOMAIN steps : steps[i] \in ProtocolSteps}
        IN  /\ \A i, j \in ordered : i < j => StepRank(steps[i]) < StepRank(steps[j])
            /\ \A i \in ordered :
                 StepRank(steps[i]) > 1 =>
                    \E j \in ordered : j < i /\ StepRank(steps[j]) = StepRank(steps[i]) - 1
            /\ Did(p, "restart") =>
                 /\ Cardinality(Positions(p, "restart")) = 1
                 /\ Did(p, "mutate") /\ Did(p, "publish")
                 /\ remote = Mutated(p)
                 /\ remote # proc[p].before

\* A disable went through every step and its restart failed.
C15_Witness ==
    \E p \in Procs :
        /\ proc[p].op = "disable" /\ proc[p].outcome = "RestartFailure"
        /\ proc[p].steps = <<"touch", "fetch", "locate", "decide", "mutate", "publish",
                             "cleanup", "restart">>
        /\ proc[p].before = Join(<<SECTION_HEADER, LineD>>)


\* The positions of the lines that contain the directive name.
Matching(lines) == {i \in DOMAIN lines : Contains(lines[i], ENV_VARIABLE_SX_SNIFFER)}

\* The only lines that contain the name are lines of the other directive, whose
\* key SX_SNIFFER_ENABLE_PRM merely contains the name.
OtherDirectiveOnly(lines) ==
    LET matching == Matching(lines)
    IN  /\ matching # {}
        /\ \A i \in matching : lines[i] \in {LineE, NoFinalNewline(LineE)}

\* The locate step of process p has returned its line.
Located(p) == proc[p].pc = "decide" \/ Did(p, "decide")

\* C16: substring lookup.  The line located is the first line, top to bottom, of
\* the fetched fragment that contains the directive name, '' when there is none;
\* so on a fragment whose only matching lines belong to the other directive an
\* enable is a no-op that adds no line, and a disable deletes the other
\* directive's line and, when nothing fails, reports Applied.
C16_SubstringLookup ==
    \A p \in Procs :
        Located(p) =>
          LET lines == Lines(proc[p].before)
              matching == Matching(lines)
              after == Lines(remote)
          IN  /\ proc[p].env_variable_exist_string =
                   IF matching = {} THEN <<>>
                   ELSE lines[CHOOSE i \in matching : \A j \in matching : i <= j]
              /\ (Did(p, "decide") /\ OtherDirectiveOnly(lines)) =>
                   IF proc[p].op = "enable"
                   THEN /\ proc[p].ignore /\ ~Did(p, "mutate") /\ ~Did(p, "publish")
                        /\ remote = proc[p].before
                        /\ proc[p].pc = "done" => proc[p].outcome = "AlreadyInDesiredState"
                   ELSE /\ ~proc[p].ignore
                        /\ proc[p].env_variable_exist_string
                              \in {LineE, NoFinalNewline(LineE)}
                        /\ Published(p) =>
                              /\ Len(after) < Len(lines)
                              /\ \A i \in DOMAIN after :
                                    after[i] # proc[p].env_variable_exist_string
                        /\ (proc[p].pc = "done" /\ proc[p].err = 0) =>
                              /\ proc[p].outcome = "Applied"
                              /\ proc[p].echo = << <<"Disabling SDK sniffer">>,
                                                    <<"SDK sniffer is Disabled.">> >>

\* A disable on a fragment that held the other directive only: its line is gone.
C16_Witness ==
    \E p \in Procs :
        /\ proc[p].op = "disable" /\ proc[p].outcome = "Applied"
        /\ proc[p].before = Join(<<SECTION_HEADER, LineE, LineX>>)
        /\ remote = Join(<<SECTION_HEADER, LineX>>)


\* The directive lines the tool can have written.
WrittenDirectives ==
    {sdk_sniffer_env_variable_string(time_stamp) : time_stamp \in TimeStamps} \cup {LineD}

\* The shapes of a fragment that only the tool has written: empty, the section
\* header alone, or the section header and one directive line.
Shape(content) ==
    \/ content = <<>>
    \/ content = SECTION_HEADER
    \/ \E directive \in WrittenDirectives : content = SECTION_HEADER \o directive

\* C17: shape from empty.  No step but a copy back that failed takes the remote
\* fragment out of the shapes empty, [header], [header, directive]: the empty
\* fragment has one of them, so every fragment reached from it by invocations run
\* one after the other without fatal failure has one; a fragment that has the
\* section header keeps it as its first and only header line, and a disable of
\* [header, directive] leaves [header], not the empty fragment.
C17_ShapeFromEmpty ==
    [][(remote' # remote /\ Shape(remote) /\ \A p \in Procs : ~FailsToPublish(p))
          => /\ Shape(remote')
             /\ remote # <<>> => remote' # <<>>
             /\ \A p \in Procs :
                  (proc[p].pc = "send" /\ proc[p].op = "disable" /\ proc'[p] # proc[p])
                     => remote' = SECTION_HEADER]_vars

\* From [header]: an enable made [header, directive] of it, the disable after it
\* [header] again.
C17_Witness ==
    /\ Len(calls) = 2
    /\ calls[1].op = "enable" /\ calls[1].outcome = "Applied"
    /\ calls[1].before = SECTION_HEADER
    /\ calls[1].after \in {SECTION_HEADER \o sdk_sniffer_env_variable_string(time_stamp) :
                              time_stamp \in TimeStamps}
    /\ calls[2].op = "disable" /\ calls[2].outcome = "Applied"
    /\ remote = SECTION_HEADER


\* The lines of a content that do not contain the directive name.
UnrelatedLines(content) ==
    LET lines == Lines(content)
    IN  {lines[i] : i \in {j \in DOMAIN lines : ~Contains(lines[j], ENV_VARIABLE_SX_SNIFFER)}}

\* Every line of the content, the last one too, ends with a newline.
NewlineTerminated(content) == content = <<>> \/ content[Len(content)] = NL

\* C18: concurrent loss of unrelated lines.  With two invocations interleaved on
\* /tmp/tmp.conf, a publish can remove from the remote fragment a line that does
\* not contain the directive name; on a fragment whose lines all end with a
\* newline, a copy back that completes does so only when it is the publish of an
\* invocation that changed the staging file and ran while the other one was
\* running, after the other one had overwritten the staging file by its fetch or
\* removed it by its cleanup.  The one other step that loses such a line is a copy
\* back that failed while it wrote.
C18_LossOnlyAfterOthersCleanup ==
    [][(remote' # remote /\ NewlineTerminated(remote)
          /\ ~(UnrelatedLines(remote) \subseteq UnrelatedLines(remote')))
         => \E p \in Procs :
              \/ FailsToPublish(p)
              \/ \E q \in Procs \ {p} :
                    /\ Publishes(p)
                    /\ Did(p, "mutate")
                    /\ proc[p].overlapped
                    /\ Did(q, "fetch") \/ Did(q, "cleanup")]_vars

\* Both invocations started on [header, autostart=true]; the remote fragment now
\* holds a directive line and the line autostart=true is gone.
C18_Witness ==
    /\ \A p \in Procs : proc[p].before = Join(<<SECTION_HEADER, LineX>>)
    /\ DirectivePresent(remote)
    /\ LineX \notin UnrelatedLines(remote)


\* ------------------------------------------- show syslog rate-limit-container
SYSLOG_RATE_LIMIT_INTERVAL == "rate_limit_interval"
SYSLOG_RATE_LIMIT_BURST == "rate_limit_burst"

\* Python's None, what dict.get gives for a missing key when no default is passed.
None == "(None)"

\* dict.get(key, default)
Get(dict, key, default) == IF key \in DOMAIN dict THEN dict[key] ELSE default

\* str.lower() on the values the tables hold.
Lower(string) ==
    CASE string = "True" -> "true"
      [] string = "TRUE" -> "true"
      [] string = "False" -> "false"
      [] OTHER -> string

\* Service names, in the order natsorted gives them.
NaturalOrder == <<"bgp", "snmp", "swss">>

\* natsorted(service_list)
natsorted(service_list) == SelectSeq(NaturalOrder, LAMBDA name : name \in service_list)

\* The dicts over the given keys, each key optional, with the values allowed for it.
Dicts(keys, values) ==
    UNION {{d \in [present -> UNION {values[k] : k \in present}] :
               \A k \in present : d[k] \in values[k]} : present \in SUBSET keys}

\* Tables: a dict for some of the names.
Tables(names, entries) == UNION {[present -> entries] : present \in SUBSET names}

\* The values a FEATURE entry may hold.
FeatureValues ==
    [state |-> {"enabled", "disabled", "always_disabled"},
     support_syslog_rate_limit |-> {"true", "True", "false"}]

\* The values a SYSLOG_CONFIG_FEATURE entry may hold.
SyslogValues == [rate_limit_interval |-> {"300"}, rate_limit_burst |-> {"10000"}]

FeatureTables ==
    Tables({"bgp", "swss"}, Dicts({"state", "support_syslog_rate_limit"}, FeatureValues))

SyslogTables ==
    Tables({"bgp", "swss"},
           Dicts({SYSLOG_RATE_LIMIT_INTERVAL, SYSLOG_RATE_LIMIT_BURST}, SyslogValues))

\* The argument: not given, a name of the FEATURE table or not.
ServiceNames == {"", "bgp", "snmp", "swss"}

\* One row of the table printed.
Row(syslog_configs, service) ==
    IF service \in DOMAIN syslog_configs
    THEN <<service,
           Get(syslog_configs[service], SYSLOG_RATE_LIMIT_INTERVAL, "N/A"),
           Get(syslog_configs[service], SYSLOG_RATE_LIMIT_BURST, "N/A")>>
    ELSE <<service, "N/A", "N/A">>

\* click.echo(format(header, body)) for the services of the list.
Rows(syslog_configs, service_list) ==
    [kind |-> "rows", message |-> <<>>,
     body |-> [i \in DOMAIN natsorted(service_list) |->
                  Row(syslog_configs, natsorted(service_list)[i])]]

Raise(kind, message) == [kind |-> kind, message |-> message, body |-> <<>>]

\* The orders in which a dict may hold the given keys.
KeyOrders(keys) ==
    {order \in [1..Cardinality(keys) -> keys] : \A k \in keys : \E i \in DOMAIN order : order[i] = k}

\* ','.join(keys)
RECURSIVE CommaJoin(_)
CommaJoin(keys) ==
    IF keys = <<>> THEN <<>>
    ELSE IF Len(keys) = 1 THEN <<keys[1]>>
    ELSE <<keys[1], ",">> \o CommaJoin(Tail(keys))

\* click.UsageError('Invalid service name {}, please choose from: {}'.format(...))
InvalidServiceName(name, keys) ==
    Raise("UsageError",
          <<"Invalid service name ", name, ", please choose from: ">> \o CommaJoin(keys))

\* Whether the FEATURE entry says the service supports the rate limit.
support_rate_limit(service_config) ==
    Lower(Get(service_config, "support_syslog_rate_limit", "")) = "true"

\* rate_limit_container with the test of the support made before the test of the state.
show_rate_limit_support_first(features, feature_keys, syslog_configs, name) ==
    IF name # ""
    THEN IF name \notin DOMAIN features
         THEN InvalidServiceName(name, feature_keys)
         ELSE IF ~support_rate_limit(features[name])
         THEN Raise("ClickException",
                    <<"Service ", name, " does not support syslog rate limit">>)
         ELSE IF Get(features[name], "state", None) \in {"disabled", "always_disabled"}
         THEN Raise("ClickException",
                    <<"Service ", name, " is disabled, please enable it first">>)
         ELSE Rows(syslog_configs, {name})
    ELSE Rows(syslog_configs,
              {n \in DOMAIN features :
                  /\ support_rate_limit(features[n])
                  /\ Get(features[n], "state", None) \notin {"disabled", "always_disabled"}})

\* The body of rate_limit_container: what it raises or prints.
show_rate_limit(features, feature_keys, syslog_configs, name) ==
    IF name # ""
    THEN IF name \notin DOMAIN features
         THEN InvalidServiceName(name, feature_keys)
         ELSE IF Get(features[name], "state", None) \in {"disabled", "always_disabled"}
         THEN Raise("ClickException",
                    <<"Service ", name, " is disabled, please enable it first">>)
         ELSE IF ~support_rate_limit(features[name])
         THEN Raise("ClickException",
                    <<"Service ", name, " does not support syslog rate limit">>)
         ELSE Rows(syslog_configs, {name})
    ELSE Rows(syslog_configs,
              {n \in DOMAIN features :
                  /\ support_rate_limit(features[n])
                  /\ Get(features[n], "state", None) \notin {"disabled", "always_disabled"}})

\* The command is run once on the tables and the argument drawn.
rate_limit_container ==
    /\ output.kind = "none"
    /\ output' = show_rate_limit(db.features, db.feature_keys, db.syslog_configs,
                                 service_name)
    /\ UNCHANGED <<db, service_name>>
    /\ UNCHANGED <<remote, remoteExists, staging, stagingExists, targetDir, proc, calls,
                   started, faults>>

InitShow ==
    /\ \E features \in FeatureTables, syslog_configs \in SyslogTables :
         \E feature_keys \in KeyOrders(DOMAIN features) :
            db = [features |-> features, feature_keys |-> feature_keys,
                  syslog_configs |-> syslog_configs]
    /\ service_name \in ServiceNames
    /\ output = [kind |-> "none"]
    /\ remote = <<>> /\ remoteExists = FALSE
    /\ staging = <<>> /\ stagingExists = FALSE
    /\ targetDir = FALSE
    /\ proc = [p \in Procs |-> Idle]
    /\ calls = <<>>
    /\ started = 0
    /\ faults = 0

NextShow == rate_limit_container

SpecShow == InitShow /\ [][NextShow]_vars


\* C19: show syslog rate-limit-container.  With a service name given: a name that
\* is not in the FEATURE table is a usage error; else a state 'disabled' or
\* 'always_disabled' is the error "is disabled"; else a support_syslog_rate_limit
\* that is not 'true' in any case of its letters is the error "does not support";
\* else one row is printed, for that service.  With no name given, one row is
\* printed for each feature whose support is 'true' and whose state is neither
\* 'disabled' nor 'always_disabled', and for no other.  In a row, a value whose
\* entry or field is missing in SYSLOG_CONFIG_FEATURE is 'N/A'.
C19_ShowRateLimit ==
    output.kind # "none" =>
      LET features == db.features
          syslog_configs == db.syslog_configs
          Disabled(n) ==
              /\ "state" \in DOMAIN features[n]
              /\ features[n]["state"] \in {"disabled", "always_disabled"}
          Supports(n) ==
              /\ "support_syslog_rate_limit" \in DOMAIN features[n]
              /\ features[n]["support_syslog_rate_limit"] \in {"true", "True", "TRUE"}
          Value(n, key) ==
              IF n \in DOMAIN syslog_configs /\ key \in DOMAIN syslog_configs[n]
              THEN syslog_configs[n][key] ELSE "N/A"
          shown == {output.body[i][1] : i \in DOMAIN output.body}
      IN  /\ service_name # "" =>
               IF service_name \notin DOMAIN features
               THEN /\ output.kind = "UsageError"
                    /\ SubSeq(output.message, 1, 3) =
                          <<"Invalid service name ", service_name, ", please choose from: ">>
                    /\ {output.message[i] : i \in 4..Len(output.message)} \ {","}
                          = DOMAIN features
               ELSE IF Disabled(service_name)
               THEN /\ output.kind = "ClickException"
                    /\ output.message[3] = " is disabled, please enable it first"
               ELSE IF ~Supports(service_name)
               THEN /\ output.kind = "ClickException"
                    /\ output.message[3] = " does not support syslog rate limit"
               ELSE /\ output.kind = "rows"
                    /\ Len(output.body) = 1
                    /\ shown = {service_name}
          /\ service_name = "" =>
               /\ output.kind = "rows"
               /\ shown = {n \in DOMAIN features : Supports(n) /\ ~Disabled(n)}
               /\ Len(output.body) = Cardinality(shown)
          /\ \A i \in DOMAIN output.body :
               output.body[i] = <<output.body[i][1],
                                  Value(output.body[i][1], SYSLOG_RATE_LIMIT_INTERVAL),
                                  Value(output.body[i][1], SYSLOG_RATE_LIMIT_BURST)>>

\* The service asked for is disabled and does not support the rate limit either:
\* the error is the one of the state.
C19_Witness ==
    /\ service_name = "bgp"
    /\ "bgp" \in DOMAIN db.features
    /\ Get(db.features["bgp"], "state", None) = "always_disabled"
    /\ Get(db.features["bgp"], "support_syslog_rate_limit", "") = "false"
    /\ output.kind = "ClickException"
    /\ output.message = <<"Service ", "bgp", " is disabled, please enable it first">>

====
